---- MODULE Spec2Model ----
(***************************************************************************)
(* sb_dice: the driver `main` and the visitor `StringReplacer` of          *)
(* src/main.rs as a state machine.                                         *)
(*                                                                         *)
(* Strings are sequences of code points (97 is "a", 48 is "0").  A value   *)
(* of a Str node is a WTF-8 atom: it may hold a lone surrogate code point  *)
(* (55296..57343), and then it has no `str` form.                          *)
(* The syntax tree is kept as the sequence of its leaf nodes in the order  *)
(* in which `module.visit_mut_with(&mut replacer)` reaches them.           *)
(* serde_json::Map is a BTreeMap in the default build and an IndexMap with  *)
(* the crate's preserve_order feature; the manifest is not part of the      *)
(* sources, so the build is a choice made in Init (preserve_order).         *)
(* The results of the parser, the emitter, the serializer and the file      *)
(* system are choices of the environment.                                   *)
(***************************************************************************)
EXTENDS Integers, Sequences, FiniteSets, TLC

VARIABLES
    preserve_order, \* build of serde_json: FALSE = Map is a BTreeMap, TRUE = an IndexMap
    argv,           \* env::args().skip(1)
    pc,             \* position of main
    exit_code,      \* None while running, Some(code) once the process has exited
    io,             \* outcome of each call to an external collaborator
    parsed,         \* the tree as parse_module returned it
    module,         \* the tree, mutated in place by the visitor
    pos,            \* number of nodes visit_mut_with has passed
    replacer,       \* the StringReplacer: [counter, originals]
    out_ts,         \* None, or Some([path, content]) of <name>_r.ts
    map,            \* the serde_json Map being built, in iteration order
    idx,            \* number of originals already inserted in map
    json_text,      \* the serialized map: members in the order they are emitted
    out_json        \* None, or Some([path, content]) of <name>_s.json

vars == <<preserve_order, argv, pc, exit_code, io, parsed, module, pos,
          replacer, out_ts, map, idx, json_text, out_json>>

----------------------------------------------------------------------------
(* Bounds *)

\* longest tree of mixed node kinds
MaxNodes == 3

\* longest tree of string literals only (more than ten, for two-digit keys)
MaxLits == 11

----------------------------------------------------------------------------
(* Option, strings *)

None == <<>>

Some(x) == <<x>>

IsSome(o) == o # None

Unwrap(o) == o[1]

\* '0' + d
Digit(d) == 48 + d

RECURSIVE to_string(_)
\* usize::to_string: decimal, no leading zeros
to_string(n) == IF n < 10 THEN <<Digit(n)>>
                ELSE Append(to_string(n \div 10), Digit(n % 10))

\* the code point is a surrogate, which WTF-8 allows and UTF-8 does not
IsSurrogate(c) == c >= 55296 /\ c <= 57343

\* Wtf8Atom::as_str: the text, when the atom is well-formed UTF-8
as_str(v) == IF \E i \in 1..Len(v) : IsSurrogate(v[i]) THEN None ELSE Some(v)

\* Option<&str>::unwrap_or_default
unwrap_or_default(o) == IF IsSome(o) THEN Unwrap(o) ELSE <<>>

RECURSIVE StrLess(_, _)
\* Ord for String: lexicographic on the bytes
StrLess(a, b) ==
    IF b = <<>> THEN FALSE
    ELSE IF a = <<>> THEN TRUE
    ELSE IF a[1] # b[1] THEN a[1] < b[1]
    ELSE StrLess(Tail(a), Tail(b))

----------------------------------------------------------------------------
(* Paths *)

\* index of the last occurrence of c in s, 0 when there is none
LastIndexOf(s, c) ==
    LET hits == {i \in 1..Len(s) : s[i] = c}
    IN IF hits = {} THEN 0 ELSE CHOOSE i \in hits : \A j \in hits : j <= i

\* Path::file_name: the last component, unless the path ends in ".." or is empty
file_name(p) ==
    LET k == LastIndexOf(p, 47)
        f == SubSeq(p, k + 1, Len(p))
    IN IF f = <<>> \/ f = <<46>> \/ f = <<46, 46>> THEN None ELSE Some(f)

\* std::path rsplit_file_at_dot: <<before, after>>
rsplit_file_at_dot(f) ==
    LET k == LastIndexOf(f, 46)
    IN IF f = <<46, 46>> \/ k <= 1 THEN <<Some(f), None>>
       ELSE <<Some(SubSeq(f, 1, k - 1)), Some(SubSeq(f, k + 1, Len(f)))>>

\* Path::extension: before.and(after)
extension(p) ==
    LET f == file_name(p)
    IN IF f = None THEN None
       ELSE LET ba == rsplit_file_at_dot(Unwrap(f))
            IN IF ba[1] = None THEN None ELSE ba[2]

\* Path::file_stem: before.or(after)
file_stem(p) ==
    LET f == file_name(p)
    IN IF f = None THEN None
       ELSE LET ba == rsplit_file_at_dot(Unwrap(f))
            IN IF ba[1] # None THEN ba[1] ELSE ba[2]

\* Path::parent of a path with a file name: what precedes the last separator
parent(p) ==
    LET k == LastIndexOf(p, 47)
    IN IF k = 0 THEN <<>> ELSE SubSeq(p, 1, k - 1)

\* Path::join of a directory and a relative file name
join(dir, f) == IF dir = <<>> THEN f ELSE dir \o <<47>> \o f

\* "ts"
ExtTs == <<116, 115>>

\* "_r.ts"
SuffixTs == <<95, 114, 46, 116, 115>>

\* "_s.json"
SuffixJson == <<95, 115, 46, 106, 115, 111, 110>>

\* "-h"
ArgH == <<45, 104>>

\* "--help"
ArgHelp == <<45, 45, 104, 101, 108, 112>>

\* the command lines tried: none, -h, --help, a.ts, a.js, .ts, a, d.ts/a,
\* d/a.ts, and a.ts -h
Argvs ==
    { <<>>,
      <<ArgH>>,
      <<ArgHelp>>,
      << <<97, 46, 116, 115>> >>,
      << <<97, 46, 106, 115>> >>,
      << <<46, 116, 115>> >>,
      << <<97>> >>,
      << <<100, 46, 116, 115, 47, 97>> >>,
      << <<100, 47, 97, 46, 116, 115>> >>,
      << <<97, 46, 116, 115>>, ArgH >> }

----------------------------------------------------------------------------
(* Syntax trees *)

\* a source literal's raw text: the content between double quotes
Quote(v) == <<34>> \o v \o <<34>>

\* ast::Str as the parser builds it
StrNode(v) == [kind |-> "Str", value |-> v, raw |-> Some(Quote(v))]

\* ast::TplElement: a template's static segment
TplNode(v) == [kind |-> "TplElement", value |-> v, raw |-> Some(v)]

\* any other node
OtherNode == [kind |-> "Other", value |-> <<>>, raw |-> None]

\* literal values: "0", and "\uD800" (a lone surrogate)
StrValues == { <<48>>, <<55296>> }

Nodes == {StrNode(v) : v \in StrValues} \cup {TplNode(<<48>>), OtherNode}

\* trees of at most MaxNodes nodes of any kind
MixedTrees == UNION {[1..n -> Nodes] : n \in 0..MaxNodes}

\* trees of MaxNodes+1 .. MaxLits string literals "a", "b", "a", ...
LongTrees == {[i \in 1..n |-> StrNode(<<97 + (i % 2)>>)] : n \in (MaxNodes + 1)..MaxLits}

Trees == MixedTrees \cup LongTrees

----------------------------------------------------------------------------
(* The visitor *)

\* StringReplacer::new
StringReplacer_new == [counter |-> 0, originals |-> <<>>]

\* visit_mut_str that numbers from the incremented counter
visit_mut_str_IncrementFirst(self, n) ==
    LET original == unwrap_or_default(as_str(n.value))
        originals1 == Append(self.originals, original)
        new_val == to_string(self.counter + 1)
    IN [self |-> [counter |-> self.counter + 1, originals |-> originals1],
        n |-> [n EXCEPT !.value = new_val, !.raw = None]]

\* visit_mut_str that reads the value to record after it has been replaced
visit_mut_str_RecordAfter(self, n) ==
    LET new_val == to_string(self.counter)
        original == unwrap_or_default(as_str(new_val))
        originals1 == Append(self.originals, original)
    IN [self |-> [counter |-> self.counter + 1, originals |-> originals1],
        n |-> [n EXCEPT !.value = new_val, !.raw = None]]

\* visit_mut_str that returns early from a value it cannot decode
visit_mut_str_SkipUndecodable(self, n) ==
    IF as_str(n.value) = None THEN [self |-> self, n |-> n]
    ELSE LET original == Unwrap(as_str(n.value))
             originals1 == Append(self.originals, original)
             new_val == to_string(self.counter)
         IN [self |-> [counter |-> self.counter + 1, originals |-> originals1],
             n |-> [n EXCEPT !.value = new_val, !.raw = None]]

\* visit_mut_str that does not record an empty text
visit_mut_str_DropEmpty(self, n) ==
    LET original == unwrap_or_default(as_str(n.value))
        originals1 == IF original = <<>> THEN self.originals
                      ELSE Append(self.originals, original)
        new_val == to_string(self.counter)
    IN [self |-> [counter |-> self.counter + 1, originals |-> originals1],
        n |-> [n EXCEPT !.value = new_val, !.raw = None]]

\* visit_mut_str that leaves the raw text in place
visit_mut_str_KeepRaw(self, n) ==
    LET original == unwrap_or_default(as_str(n.value))
        originals1 == Append(self.originals, original)
        new_val == to_string(self.counter)
    IN [self |-> [counter |-> self.counter + 1, originals |-> originals1],
        n |-> [n EXCEPT !.value = new_val]]

\* StringReplacer::visit_mut_str on node n: the replacer and the node afterwards
visit_mut_str(self, n) ==
    LET original == unwrap_or_default(as_str(n.value))
        originals1 == Append(self.originals, original)
        new_val == to_string(self.counter)
    IN [self |-> [counter |-> self.counter + 1, originals |-> originals1],
        n |-> [n EXCEPT !.value = new_val, !.raw = None]]

\* visit_mut_with that also takes a template's static segment for a literal
visit_mut_with_TplToo(self, n) ==
    IF n.kind \in {"Str", "TplElement"} THEN visit_mut_str(self, n)
    ELSE [self |-> self, n |-> n]

\* VisitMut dispatch on one node: only visit_mut_str is overridden, every
\* other kind keeps the default, which changes nothing
visit_mut_with(self, n) ==
    IF n.kind = "Str" THEN visit_mut_str(self, n) ELSE [self |-> self, n |-> n]

----------------------------------------------------------------------------
(* The renderer and the mapping *)

\* the text the emitter writes for one node: a Str's raw text when it has
\* one, its value between quotes otherwise
NodeText(n) ==
    CASE n.kind = "Str" -> IF IsSome(n.raw) THEN Unwrap(n.raw) ELSE Quote(n.value)
      [] n.kind = "TplElement" -> Unwrap(n.raw)
      [] OTHER -> <<59>>

\* emitter.emit_module: the text of every node, in order
Render(t) == [i \in 1..Len(t) |-> NodeText(t[i])]

\* the keys of map m
Keys(m) == {m[i].key : i \in 1..Len(m)}

\* Map::insert: replaces the value of a key that is present; a new key goes
\* to its sorted place in a BTreeMap, to the end in an IndexMap
insert(m, k, v) ==
    LET e == [key |-> k, value |-> v]
    IN IF k \in Keys(m)
       THEN [i \in 1..Len(m) |-> IF m[i].key = k THEN e ELSE m[i]]
       ELSE IF preserve_order THEN Append(m, e)
       ELSE LET n == Cardinality({i \in 1..Len(m) : StrLess(m[i].key, k)})
            IN SubSeq(m, 1, n) \o <<e>> \o SubSeq(m, n + 1, Len(m))

\* serde_json::to_string_pretty of an object: one member per line, in the
\* map's iteration order
to_string_pretty(m) == [i \in 1..Len(m) |-> <<Quote(m[i].key), Quote(m[i].value)>>]

----------------------------------------------------------------------------
(* The driver *)

\* process::exit(code)
Exit(code) == pc' = "exit" /\ exit_code' = Some(code)

input_path == argv[1]

out_ts_path == join(parent(input_path), Unwrap(file_stem(input_path)) \o SuffixTs)

out_json_path == join(parent(input_path), Unwrap(file_stem(input_path)) \o SuffixJson)

IoInit == [read |-> "none", parse |-> "none", emit |-> "none", utf8 |-> "none",
           write_ts |-> "none", serialize |-> "none", write_json |-> "none"]

Outcome(ok) == IF ok THEN "ok" ELSE "err"

Init ==
    /\ preserve_order \in BOOLEAN
    /\ argv \in Argvs
    /\ pc = "args"
    /\ exit_code = None
    /\ io = IoInit
    /\ parsed = <<>>
    /\ module = <<>>
    /\ pos = 0
    /\ replacer = StringReplacer_new
    /\ out_ts = None
    /\ map = <<>>
    /\ idx = 0
    /\ json_text = <<>>
    /\ out_json = None

\* main: the help flag and the missing argument
ParseArgs ==
    /\ pc = "args"
    /\ LET arg == IF argv = <<>> THEN None ELSE Some(argv[1])
       IN IF arg = Some(ArgH) \/ arg = Some(ArgHelp) THEN Exit(0)
          ELSE IF arg = None THEN Exit(1)
          ELSE pc' = "check_ext" /\ UNCHANGED exit_code
    /\ UNCHANGED <<preserve_order, argv, io, parsed, module, pos, replacer,
                   out_ts, map, idx, json_text, out_json>>

\* CheckExt that refuses the path with exit code 0
CheckExt_ExitZero ==
    /\ pc = "check_ext"
    /\ IF extension(input_path) # Some(ExtTs) THEN Exit(0)
       ELSE pc' = "read" /\ UNCHANGED exit_code
    /\ UNCHANGED <<preserve_order, argv, io, parsed, module, pos, replacer,
                   out_ts, map, idx, json_text, out_json>>

\* main: only a .ts path is accepted
CheckExt ==
    /\ pc = "check_ext"
    /\ IF extension(input_path) # Some(ExtTs) THEN Exit(2)
       ELSE pc' = "read" /\ UNCHANGED exit_code
    /\ UNCHANGED <<preserve_order, argv, io, parsed, module, pos, replacer,
                   out_ts, map, idx, json_text, out_json>>

\* main: fs::read_to_string
ReadFile ==
    /\ pc = "read"
    /\ \E ok \in BOOLEAN :
        /\ io' = [io EXCEPT !.read = Outcome(ok)]
        /\ IF ok THEN pc' = "parse" /\ UNCHANGED exit_code ELSE Exit(3)
    /\ UNCHANGED <<preserve_order, argv, parsed, module, pos, replacer,
                   out_ts, map, idx, json_text, out_json>>

\* main: parser.parse_module fails
ParseFail ==
    /\ pc = "parse"
    /\ io' = [io EXCEPT !.parse = "err"]
    /\ Exit(4)
    /\ UNCHANGED <<preserve_order, argv, parsed, module, pos, replacer,
                   out_ts, map, idx, json_text, out_json>>

\* main: parser.parse_module returns a tree, and the replacer is created
ParseModule ==
    /\ pc = "parse"
    /\ \E t \in Trees :
        /\ parsed' = t
        /\ module' = t
    /\ io' = [io EXCEPT !.parse = "ok"]
    /\ replacer' = StringReplacer_new
    /\ pos' = 0
    /\ pc' = "visit"
    /\ UNCHANGED <<preserve_order, argv, exit_code, out_ts, map, idx,
                   json_text, out_json>>

\* module.visit_mut_with(&mut replacer): the visit of the next node
Visit ==
    /\ pc = "visit"
    /\ pos < Len(module)
    /\ LET r == visit_mut_with(replacer, module[pos + 1])
       IN /\ replacer' = r.self
          /\ module' = [module EXCEPT ![pos + 1] = r.n]
    /\ pos' = pos + 1
    /\ UNCHANGED <<preserve_order, argv, pc, exit_code, io, parsed, out_ts,
                   map, idx, json_text, out_json>>

\* main: emitter.emit_module, once the traversal has returned
EmitModule ==
    /\ pc = "visit"
    /\ pos = Len(module)
    /\ \E ok \in BOOLEAN :
        /\ io' = [io EXCEPT !.emit = Outcome(ok)]
        /\ IF ok THEN pc' = "utf8" /\ UNCHANGED exit_code ELSE Exit(5)
    /\ UNCHANGED <<preserve_order, argv, parsed, module, pos, replacer,
                   out_ts, map, idx, json_text, out_json>>

\* main: String::from_utf8(buf)
FromUtf8 ==
    /\ pc = "utf8"
    /\ \E ok \in BOOLEAN :
        /\ io' = [io EXCEPT !.utf8 = Outcome(ok)]
        /\ IF ok THEN pc' = "paths" /\ UNCHANGED exit_code ELSE Exit(6)
    /\ UNCHANGED <<preserve_order, argv, parsed, module, pos, replacer,
                   out_ts, map, idx, json_text, out_json>>

\* main: the file stem, from which both output paths are built
OutPaths ==
    /\ pc = "paths"
    /\ IF file_stem(input_path) = None THEN Exit(7)
       ELSE pc' = "write_ts" /\ UNCHANGED exit_code
    /\ UNCHANGED <<preserve_order, argv, io, parsed, module, pos, replacer,
                   out_ts, map, idx, json_text, out_json>>

\* WriteTs that reports a failed write and goes on
WriteTs_GoOnAfterError ==
    /\ pc = "write_ts"
    /\ \E ok \in BOOLEAN :
        /\ io' = [io EXCEPT !.write_ts = Outcome(ok)]
        /\ IF ok
           THEN out_ts' = Some([path |-> out_ts_path, content |-> Render(module)])
           ELSE UNCHANGED out_ts
    /\ pc' = "build_map"
    /\ map' = <<>>
    /\ idx' = 0
    /\ UNCHANGED <<preserve_order, argv, exit_code, parsed, module, pos,
                   replacer, json_text, out_json>>

\* main: fs::write of <name>_r.ts, then Map::new
WriteTs ==
    /\ pc = "write_ts"
    /\ \E ok \in BOOLEAN :
        /\ io' = [io EXCEPT !.write_ts = Outcome(ok)]
        /\ IF ok
           THEN /\ out_ts' = Some([path |-> out_ts_path, content |-> Render(module)])
                /\ pc' = "build_map"
                /\ UNCHANGED exit_code
           ELSE /\ Exit(8)
                /\ UNCHANGED out_ts
    /\ map' = <<>>
    /\ idx' = 0
    /\ UNCHANGED <<preserve_order, argv, parsed, module, pos, replacer,
                   json_text, out_json>>

\* MapInsert with the key one ahead of the index
MapInsert_KeyOffByOne ==
    /\ pc = "build_map"
    /\ idx < Len(replacer.originals)
    /\ map' = insert(map, to_string(idx + 1), replacer.originals[idx + 1])
    /\ idx' = idx + 1
    /\ UNCHANGED <<preserve_order, argv, pc, exit_code, io, parsed, module,
                   pos, replacer, out_ts, json_text, out_json>>

\* main: one turn of the loop over replacer.originals.iter().enumerate()
MapInsert ==
    /\ pc = "build_map"
    /\ idx < Len(replacer.originals)
    /\ map' = insert(map, to_string(idx), replacer.originals[idx + 1])
    /\ idx' = idx + 1
    /\ UNCHANGED <<preserve_order, argv, pc, exit_code, io, parsed, module,
                   pos, replacer, out_ts, json_text, out_json>>

\* main: serde_json::to_string_pretty, once the loop has ended
Serialize ==
    /\ pc = "build_map"
    /\ idx = Len(replacer.originals)
    /\ \E ok \in BOOLEAN :
        /\ io' = [io EXCEPT !.serialize = Outcome(ok)]
        /\ IF ok
           THEN /\ json_text' = to_string_pretty(map)
                /\ pc' = "write_json"
                /\ UNCHANGED exit_code
           ELSE /\ Exit(9)
                /\ UNCHANGED json_text
    /\ UNCHANGED <<preserve_order, argv, parsed, module, pos, replacer,
                   out_ts, map, idx, out_json>>

\* main: fs::write of <name>_s.json, then the end of main
WriteJson ==
    /\ pc = "write_json"
    /\ \E ok \in BOOLEAN :
        /\ io' = [io EXCEPT !.write_json = Outcome(ok)]
        /\ IF ok
           THEN /\ out_json' = Some([path |-> out_json_path, content |-> json_text])
                /\ Exit(0)
           ELSE /\ Exit(10)
                /\ UNCHANGED out_json
    /\ UNCHANGED <<preserve_order, argv, parsed, module, pos, replacer,
                   out_ts, map, idx, json_text>>

Next ==
    \/ ParseArgs
    \/ CheckExt
    \/ ReadFile
    \/ ParseFail
    \/ ParseModule
    \/ Visit
    \/ EmitModule
    \/ FromUtf8
    \/ OutPaths
    \/ WriteTs
    \/ MapInsert
    \/ Serialize
    \/ WriteJson

Spec == Init /\ [][Next]_vars

\* main is one sequential thread: a step that can be taken is taken
LiveSpec == Spec /\ WF_vars(Next)

----------------------------------------------------------------------------
(* Vocabulary of the properties *)

\* s is a decimal numeral without a leading zero
IsDecimal(s) ==
    /\ Len(s) >= 1
    /\ \A i \in 1..Len(s) : s[i] >= 48 /\ s[i] <= 57
    /\ (Len(s) > 1 => s[1] # 48)

RECURSIVE DecimalValue(_)
\* the number a decimal numeral denotes
DecimalValue(s) ==
    IF s = <<>> THEN 0
    ELSE 10 * DecimalValue(SubSeq(s, 1, Len(s) - 1)) + (s[Len(s)] - 48)

\* s is the decimal string of k
IsDecimalOf(s, k) == IsDecimal(s) /\ DecimalValue(s) = k

\* the value has no text form
Undecodable(v) == \E i \in 1..Len(v) : v[i] \in 55296..57343

\* the text of a value, empty when it has none
DecodedText(v) == IF Undecodable(v) THEN <<>> ELSE v

\* the positions of the string literals of the parsed tree
StrPositions == {i \in 1..Len(parsed) : parsed[i].kind = "Str"}

\* how many string literals come before position i
Rank(i) == Cardinality({j \in StrPositions : j < i})

\* the tree has been parsed
Parsed == io.parse = "ok"

\* the traversal has passed every node
TraversalDone == Parsed /\ pos = Len(module)

\* the loop that builds the mapping has ended
BuildDone == io.write_ts = "ok" /\ idx = Len(replacer.originals)

\* mapping[k]
Lookup(m, k) == m[CHOOSE i \in 1..Len(m) : m[i].key = k].value

\* the substituted tree with every placeholder replaced by its mapping entry
Restore(t, m) ==
    [i \in 1..Len(t) |->
        IF t[i].kind = "Str" /\ t[i].value \in Keys(m)
        THEN [t[i] EXCEPT !.value = Lookup(m, t[i].value)]
        ELSE t[i]]

\* the placeholders are 0, 1, ... in traversal order, and the record has one
\* entry for each literal
PlaceholdersInOrder ==
    /\ replacer.counter = Cardinality(StrPositions)
    /\ Len(replacer.originals) = Cardinality(StrPositions)
    /\ \A i \in StrPositions : IsDecimalOf(module[i].value, Rank(i))
    /\ \A i, j \in StrPositions : i # j => module[i].value # module[j].value

----------------------------------------------------------------------------
(* C1 *)

\* C1, as stated: after the visit of the whole tree the i-th string literal
\* holds the decimal string of i and originals[i] is the value it had before.
C1_AsStated ==
    TraversalDone =>
        /\ PlaceholdersInOrder
        /\ \A i \in StrPositions : replacer.originals[Rank(i) + 1] = parsed[i].value

\* C1, amended: after the visit of the whole tree the i-th string literal
\* (counting from 0 in traversal order) holds the decimal string of i, with no
\* gap and no repeat, and originals[i] is the text of the value it had before,
\* the empty string when that value has no text form.
C1_Amended ==
    TraversalDone =>
        /\ PlaceholdersInOrder
        /\ \A i \in StrPositions :
              replacer.originals[Rank(i) + 1] = DecodedText(parsed[i].value)

\* two literals with the same original text got different placeholders
C1_Witness ==
    /\ TraversalDone
    /\ \E i, j \in StrPositions :
          /\ i < j
          /\ parsed[i].value = parsed[j].value
          /\ ~Undecodable(parsed[i].value)
          /\ module[i].value # module[j].value

----------------------------------------------------------------------------
(* C2 *)

\* C2: once the driver has built the mapping from a record of length N, the
\* mapping has exactly N keys, the decimal strings of 0..N-1 without leading
\* zeros, mapping[str(i)] = record[i] for every i, and N is the number of
\* string literals of the input tree; for N = 0 the mapping is empty and the
\* run ends with an error only if serializing or writing the file fails.
C2_Mapping ==
    BuildDone =>
        LET record == replacer.originals
            N == Len(record)
        IN /\ Len(map) = N
           /\ \A k \in Keys(map) : IsDecimal(k)
           /\ {DecimalValue(k) : k \in Keys(map)} = 0..(N - 1)
           /\ \A i \in 0..(N - 1) :
                 \E k \in Keys(map) : IsDecimalOf(k, i) /\ Lookup(map, k) = record[i + 1]
           /\ N = Cardinality(StrPositions)
           /\ (N = 0 => map = <<>>)
           /\ (N = 0 /\ io.serialize # "err" /\ io.write_json # "err"
                 => exit_code \in {None, Some(0)})

\* a mapping with a two-digit key has been built
C2_Witness == BuildDone /\ Len(replacer.originals) >= 11 /\ Len(map) >= 11

\* the run over a tree without string literals ended well, its mapping empty
C2_WitnessEmpty ==
    /\ BuildDone
    /\ Len(parsed) > 0
    /\ replacer.originals = <<>>
    /\ exit_code = Some(0)
    /\ IsSome(out_json)

----------------------------------------------------------------------------
(* C3 *)

\* the visitor passes over a template static segment
PassesTplElement ==
    /\ pc = "visit"
    /\ pos < Len(module)
    /\ module[pos + 1].kind = "TplElement"
    /\ pos' = pos + 1

\* C3: a template static segment is never changed by the traversal and takes
\* no index: the counter and the record are the same before and after the
\* visitor passes over it, its content stays what the parser gave, and a tree
\* without string literals leaves the record empty.
C3_TplUntouched ==
    /\ [][PassesTplElement =>
            /\ replacer' = replacer
            /\ module'[pos + 1] = module[pos + 1]]_vars
    /\ [](\A i \in 1..Len(parsed) :
            parsed[i].kind = "TplElement" => module[i] = parsed[i])
    /\ [](TraversalDone /\ StrPositions = {} =>
            replacer.counter = 0 /\ replacer.originals = <<>>)

\* a static segment was passed between two string literals
C3_Witness ==
    /\ TraversalDone
    /\ \E i \in 1..Len(parsed) :
          /\ parsed[i].kind = "TplElement"
          /\ \E j \in StrPositions : j < i
          /\ \E j \in StrPositions : j > i

----------------------------------------------------------------------------
(* C4 *)

\* C4, as stated: putting mapping[str(i)] back in place of every placeholder
\* gives the string literals the content they had in the input tree.
C4_AsStated ==
    BuildDone =>
        \A i \in StrPositions : Restore(module, map)[i].value = parsed[i].value

\* C4, amended: putting mapping[str(i)] back in place of every placeholder
\* gives every string literal the text it had in the input tree, and the
\* empty string to a literal whose value had no text form; every other node
\* is the node of the input tree.
C4_Amended ==
    BuildDone =>
        /\ \A i \in StrPositions :
              Restore(module, map)[i].value = DecodedText(parsed[i].value)
        /\ \A i \in 1..Len(parsed) :
              i \notin StrPositions => Restore(module, map)[i] = parsed[i]

\* a mapping was built for a tree with two literals of different text
C4_Witness ==
    /\ BuildDone
    /\ \E i, j \in StrPositions :
          /\ ~Undecodable(parsed[i].value)
          /\ ~Undecodable(parsed[j].value)
          /\ parsed[i].value # parsed[j].value
          /\ Restore(module, map)[i].value # Restore(module, map)[j].value

----------------------------------------------------------------------------
(* C5 *)

\* the key of a member of the serialized mapping
MemberKey(member) == SubSeq(member[1], 2, Len(member[1]) - 1)

\* C5: in the mapping file the keys come in increasing numeric order,
\* whatever the length of the record.
C5_KeysInNumericOrder ==
    IsSome(out_json) =>
        LET text == Unwrap(out_json).content
        IN \A i, j \in 1..Len(text) :
              i < j => DecimalValue(MemberKey(text[i])) < DecimalValue(MemberKey(text[j]))

\* the order of the keys of the mapping file is a function of the record
\* and of the build alone: the members are those of the map, in its order
C5_OrderIsDetermined ==
    IsSome(out_json) =>
        LET text == Unwrap(out_json).content
        IN /\ Len(text) = Len(map)
           /\ \A i \in 1..Len(text) : MemberKey(text[i]) = map[i].key

\* a mapping file with more than ten keys was written
C5_Witness == IsSome(out_json) /\ Len(Unwrap(out_json).content) > 10

----------------------------------------------------------------------------
(* C6 *)

\* help was asked for as the first argument
HelpFirst == argv # <<>> /\ argv[1] \in {<<45, 104>>, <<45, 45, 104, 101, 108, 112>>}

\* the path ends in ".ts" after at least one more character of its file name
EndsInDotTs(p) ==
    /\ Len(p) >= 4
    /\ SubSeq(p, Len(p) - 2, Len(p)) = <<46, 116, 115>>
    /\ p[Len(p) - 3] # 47

\* the exit code, -1 while the process runs
Code == IF exit_code = None THEN -1 ELSE Unwrap(exit_code)

\* what the exit code of a finished run tells
ExitCodeRight ==
    pc = "exit" =>
        /\ Code \in 0..10
        /\ (argv = <<>> => Code # 0)
        /\ (argv # <<>> /\ ~HelpFirst /\ ~EndsInDotTs(argv[1]) => Code # 0)
        /\ (io.read = "err" => Code # 0)
        /\ (io.parse = "err" => Code # 0)
        /\ (io.emit = "err" => Code # 0)
        /\ (io.write_ts = "err" => Code # 0)
        /\ (io.write_json = "err" => Code # 0)
        /\ (Code = 0 => HelpFirst \/ (IsSome(out_ts) /\ IsSome(out_json)))

\* C6: every run of the driver terminates; it ends with a nonzero exit code
\* when the argument is missing, the path has not the extension .ts, or
\* reading, parsing, code generation or the writing of either file fails; the
\* exit code is 0 only when help was asked for as the first argument or both
\* output files were written.
C6_Terminates == <>(pc = "exit") /\ []ExitCodeRight

\* a run ended with exit code 0 after writing both files
C6_Witness ==
    /\ pc = "exit"
    /\ exit_code = Some(0)
    /\ ~HelpFirst
    /\ IsSome(out_ts)
    /\ IsSome(out_json)
    /\ StrPositions # {}

----------------------------------------------------------------------------
(* C7 *)

\* the visitor visits a string literal whose value has no text form
VisitsUndecodable ==
    /\ pc = "visit"
    /\ pos < Len(module)
    /\ module[pos + 1].kind = "Str"
    /\ Undecodable(module[pos + 1].value)
    /\ pos' = pos + 1

\* C7: the visit of a string literal whose value cannot be decoded does not
\* abort: it appends the empty string to the record, gives the node the
\* decimal string of the counter, adds one to the counter, and the traversal
\* goes on; every literal visited later holds the placeholder of its rank, as
\* if the decoding had succeeded.
C7_DecodeFallback ==
    /\ [][VisitsUndecodable =>
            /\ replacer'.originals = Append(replacer.originals, <<>>)
            /\ IsDecimalOf(module'[pos + 1].value, replacer.counter)
            /\ replacer'.counter = replacer.counter + 1
            /\ pc' = "visit"
            /\ exit_code' = None]_vars
    /\ [](Parsed =>
            \A i \in StrPositions : i <= pos => IsDecimalOf(module[i].value, Rank(i)))

\* a literal was visited after one whose value could not be decoded
C7_Witness ==
    /\ Parsed
    /\ \E i, j \in StrPositions :
          /\ i < j
          /\ j <= pos
          /\ Undecodable(parsed[i].value)
          /\ replacer.originals[Rank(i) + 1] = <<>>
          /\ IsDecimalOf(module[j].value, Rank(j))

----------------------------------------------------------------------------
(* C8 *)

\* p is a prefix of q
IsPrefix(p, q) == Len(p) <= Len(q) /\ SubSeq(q, 1, Len(p)) = p

\* between two node visits the counter, the record and the substituted
\* literals agree
PrefixConsistent ==
    Parsed =>
        LET done == {i \in StrPositions : i <= pos}
        IN /\ replacer.counter = Cardinality(done)
           /\ Len(replacer.originals) = Cardinality(done)
           /\ \A i \in done : IsDecimalOf(module[i].value, Rank(i))
           /\ \A i \in 1..Len(parsed) : i > pos => module[i] = parsed[i]

\* C8, as stated (its state part): between two node visits counter = length
\* of the record = number of literals substituted, and the node that holds
\* placeholder str(j) had the original value record[j].
C8_AsStated ==
    /\ PrefixConsistent
    /\ (Parsed =>
          \A i \in StrPositions :
              i <= pos => replacer.originals[Rank(i) + 1] = parsed[i].value)

\* C8, amended: at every point between two node visits counter = length of
\* the record = number of literals substituted, the node that holds
\* placeholder str(j) had a value whose text is record[j] (the empty string
\* when the value had no text form), the nodes not yet visited are unchanged,
\* the counter never decreases and the record is only appended to.
C8_Amended ==
    /\ []PrefixConsistent
    /\ [](Parsed =>
            \A i \in StrPositions :
                i <= pos => replacer.originals[Rank(i) + 1] = DecodedText(parsed[i].value))
    /\ [][replacer'.counter >= replacer.counter
            /\ IsPrefix(replacer.originals, replacer'.originals)]_vars

\* the traversal stands between two literals, one substituted and one not
C8_Witness ==
    /\ pc = "visit"
    /\ \E i, j \in StrPositions :
          /\ i <= pos
          /\ j > pos
          /\ module[i].value # parsed[i].value
          /\ module[j] = parsed[j]

----------------------------------------------------------------------------
(* C9 *)

\* C9: every string literal the visitor has substituted has its raw text
\* cleared, wherever it stands in the tree, so after the traversal no literal
\* holds a placeholder together with the raw text of the original, and the
\* rewritten source shows the placeholder.
C9_RawCleared ==
    /\ (Parsed => \A i \in StrPositions : i <= pos => module[i].raw = None)
    /\ (IsSome(out_ts) =>
          \A i \in StrPositions :
              Unwrap(out_ts).content[i] = <<34>> \o module[i].value \o <<34>>)

\* a literal that followed a static segment was substituted, and written out
C9_Witness ==
    /\ IsSome(out_ts)
    /\ \E i \in StrPositions :
          /\ i > 1
          /\ parsed[i - 1].kind = "TplElement"
          /\ IsSome(parsed[i].raw)
          /\ module[i].raw = None

----------------------------------------------------------------------------
(* C10 *)

\* s ends with suffix
EndsWith(s, suffix) ==
    Len(s) >= Len(suffix) /\ SubSeq(s, Len(s) - Len(suffix) + 1, Len(s)) = suffix

\* C10: no output file is written unless reading, parsing, the traversal and
\* code generation have succeeded; <name>_r.ts is written before
\* <name>_s.json, so the mapping file is never there without the rewritten
\* source; a failure to serialize or to write the mapping leaves the
\* rewritten source written without its mapping.
C10_OutputOrder ==
    /\ (IsSome(out_ts) \/ IsSome(out_json) =>
          /\ io.read = "ok"
          /\ io.parse = "ok"
          /\ pos = Len(module)
          /\ io.emit = "ok"
          /\ io.utf8 = "ok")
    /\ (IsSome(out_json) => IsSome(out_ts))
    /\ (IsSome(out_ts) => EndsWith(Unwrap(out_ts).path, <<95, 114, 46, 116, 115>>))
    /\ (IsSome(out_json) =>
          EndsWith(Unwrap(out_json).path, <<95, 115, 46, 106, 115, 111, 110>>))
    /\ (io.serialize = "err" \/ io.write_json = "err" =>
          IsSome(out_ts) /\ out_json = None /\ Code \in {9, 10})

\* the writing of the mapping failed after the rewritten source was written
C10_Witness ==
    /\ pc = "exit"
    /\ io.write_json = "err"
    /\ IsSome(out_ts)
    /\ out_json = None
    /\ StrPositions # {}

====
